---- MODULE Spec2Model ----
(***************************************************************************)
(* A model of the image-classification glue repository:                    *)
(*                                                                         *)
(*   - the label-mapping Lambda handler (lambda_function.py in the         *)
(*     lamba_function-8ec3... directory): load_labels_from_csv,            *)
(*     publish_response and lambda_handler, stage by stage;                *)
(*   - the plain Lambda handler (lamba_function/src/lambda_function.py);   *)
(*   - the device publishers pub2.py, pub1.py and publisher.py.            *)
(*                                                                         *)
(* Three state spaces share the module: Spec runs the Lambda function, in  *)
(* one of its two deployed versions; SpecLoad runs load_labels_from_csv    *)
(* alone and keeps the file it read; SpecDevice runs one publisher script, *)
(* and FairSpecDevice is SpecDevice with its threads scheduled.  Each      *)
(* keeps the other programs' variables at their initial values.            *)
(***************************************************************************)
EXTENDS Integers, Sequences, FiniteSets, TLC

(***************************************************************************)
(* Bounds of the model.                                                    *)
(***************************************************************************)
\* Size of the label table.  The source fixes it at 1000 (lines 31, 41, 54
\* of lambda_function.py); the model scales it down, every use of 1000 in
\* the source being a use of TableSize here.
TableSize == 2
\* Longest label file, in rows.
MaxRows == 3
\* Longest 'image_data' text, in characters.
MaxB64Len == 4
\* pub2.py's connection_timeout, in sleeps of the wait loop.  The source
\* waits 30 seconds in sleeps of 0.1 second (lines 116, 119); the model
\* scales the 300 sleeps down.
TimeoutTicks == 3
\* The on_connect callbacks one run of pub2.py receives.
MaxConnects == 2
\* The messages one run of a publisher script publishes.
MaxMessages == 3

(***************************************************************************)
(* The state: the label-mapping handler's process, the plain handler, and  *)
(* a device publisher script.                                              *)
(***************************************************************************)
VARIABLES
    IMAGENET_LABELS,             \* the label table (line 24)
    LABELS_LOADED_SUCCESSFULLY,  \* line 25
    SAGEMAKER_ENDPOINT_NAME,     \* line 15, from the environment
    RESPONSE_TOPIC,              \* line 16, from the environment
    validIndices,                \* ValidIndices of the file that was read
    label_file,                  \* the file of line 17, where a run keeps it
    pc,                          \* where the process is
    event,                       \* the handler's argument
    image_b64, image_bytes, processed_image,
    sagemaker_probabilities,
    output_payload,              \* the payload to publish
    ret,                         \* the dict the handler returns
    calls                        \* the calls of this invocation, in order

handlerVars == <<IMAGENET_LABELS, LABELS_LOADED_SUCCESSFULLY, SAGEMAKER_ENDPOINT_NAME,
                 RESPONSE_TOPIC, validIndices, label_file, pc, event, image_b64,
                 image_bytes,
                 processed_image, sagemaker_probabilities, output_payload, ret, calls>>

configVars == <<SAGEMAKER_ENDPOINT_NAME, RESPONSE_TOPIC, label_file>>

localVars == <<image_b64, image_bytes, processed_image, sagemaker_probabilities>>

VARIABLES
    deployed,      \* which handler file the function runs: "labels" or "plain"
    plain_pc,
    plain_event,
    plain_ret

plainVars == <<plain_pc, plain_event, plain_ret>>

\* The device publishers.
VARIABLES
    script,                  \* the script that runs
    mpc,                     \* where its main thread is
    connection_established,  \* pub2.py line 20
    connection_error_code,   \* pub2.py line 21: {} for None, {rc} for rc
    cb_pc,                   \* where on_connect is: "idle" or "second"
    cb_rc,                   \* the rc of the on_connect in progress
    connects,                \* the on_connect callbacks so far
    reported_ok,             \* an on_connect was called with rc = 0
    reported_fail,           \* an on_connect was called with rc # 0
    now,                     \* time.time(), in sleeps of the wait loop
    connection_start_time,   \* pub2.py line 115
    message_count,           \* pub2.py line 133
    published,               \* the message numbers handed to publish, in order
    acked,                   \* the message numbers acknowledged by the broker
    loop_running,            \* the network thread runs
    interrupted,             \* a KeyboardInterrupt reached the publish loop
    cleanup,                 \* the cleanup calls made, in order
    exit_status              \* how the script ended

deviceVars == <<script, mpc, connection_established, connection_error_code, cb_pc, cb_rc,
                connects, reported_ok, reported_fail, now, connection_start_time,
                message_count,
                published, acked, loop_running, interrupted, cleanup, exit_status>>

callbackVars == <<connection_established, connection_error_code, cb_pc, cb_rc, connects,
                  reported_ok, reported_fail>>

clockVars == <<now, connection_start_time>>

lambdaVars == <<deployed, handlerVars, plainVars>>

vars == <<lambdaVars, deviceVars>>

(***************************************************************************)
(* Generic helpers.                                                        *)
(***************************************************************************)
SeqsUpTo(S, n) == UNION {[1..k -> S] : k \in 0..n}

\* json.dumps / json.loads of a value: the text is kept as a tagged value,
\* so a JSON string is never confused with the object it encodes.
JsonDumps(v) == <<"json", v>>

JsonLoads(s) == s[2]

(***************************************************************************)
(* The label file and load_labels_from_csv.                                *)
(***************************************************************************)
Labels == {"a", "b"}

\* labels_temp = [None] * 1000: the None entries.
NoneLabel == "<None>"

\* A csv row: its number of fields, whether int(row[0]) succeeds, the value
\* of int(row[0]) and row[1].
MalformedRows == {[nfields |-> n, isInt |-> TRUE, index |-> 0, label |-> "a"] : n \in {1, 3}}

NonIntRows == {[nfields |-> 2, isInt |-> FALSE, index |-> 0, label |-> "a"]}

IndexedRows == {[nfields |-> 2, isInt |-> TRUE, index |-> i, label |-> l] :
                  i \in (-1)..TableSize, l \in Labels}

Rows == MalformedRows \cup NonIntRows \cup IndexedRows

\* The file: missing (FileNotFoundError), or the rows the reader yields,
\* either up to the end of the file ("ok") or up to an exception of the
\* reading itself ("error": a byte that is no UTF-8, a csv.Error), which the
\* except clause of line 66 catches.
LabelFiles == {[status |-> "missing", rows |-> <<>>]}
              \cup {[status |-> st, rows |-> r] : st \in {"ok", "error"}, r \in SeqsUpTo(Rows, MaxRows)}

\* The file of a run that does not keep it.
UnreadFile == [status |-> "unread", rows |-> <<>>]

\* The row's index is usable: two fields, an integer first field in range.
RowValid(row) == row.nfields = 2 /\ row.isInt /\ 0 <= row.index /\ row.index < TableSize

\* A loop body that overwrites the entry of an index it meets again.
ProcessRow_LastWins(acc, row) ==
    IF row.nfields = 2 /\ row.isInt /\ 0 <= row.index /\ row.index < TableSize
    THEN [labels_temp |-> [acc.labels_temp EXCEPT ![row.index + 1] = row.label],
          count |-> IF acc.labels_temp[row.index + 1] = NoneLabel
                    THEN acc.count + 1 ELSE acc.count]
    ELSE acc

\* Lines 37-52: one iteration of the loop over the reader's rows, on the
\* pair (labels_temp, count).
ProcessRow(acc, row) ==
    IF row.nfields = 2
    THEN IF row.isInt
         THEN IF 0 <= row.index /\ row.index < TableSize
              THEN IF acc.labels_temp[row.index + 1] = NoneLabel
                   THEN [labels_temp |-> [acc.labels_temp EXCEPT ![row.index + 1] = row.label],
                         count |-> acc.count + 1]
                   ELSE acc          \* duplicate index: first occurrence kept
              ELSE acc               \* index out of bounds
         ELSE acc                    \* ValueError from int(row[0])
    ELSE acc                         \* malformed row

RECURSIVE ReadRows(_, _)
\* Lines 31-52: labels_temp and count after the whole file.
ReadRows(rows, acc) ==
    IF rows = <<>> THEN acc ELSE ReadRows(Tail(rows), ProcessRow(acc, Head(rows)))

\* A loader that accepts a partly filled table.
LoadComplete_AnyCount(acc) == acc.count >= 1

\* Line 54: count == 1000 and all(label is not None for label in labels_temp)
LoadComplete(acc) ==
    acc.count = TableSize /\ \A i \in 1..TableSize : acc.labels_temp[i] # NoneLabel

\* Lines 28-70: the values load_labels_from_csv leaves in IMAGENET_LABELS
\* and LABELS_LOADED_SUCCESSFULLY.
LoadResult(file) ==
    IF file.status # "ok"
    THEN [labels |-> <<>>, loaded |-> FALSE]
    ELSE LET acc == ReadRows(file.rows, [labels_temp |-> [i \in 1..TableSize |-> NoneLabel],
                                          count |-> 0])
         IN  IF LoadComplete(acc)
             THEN [labels |-> acc.labels_temp, loaded |-> TRUE]
             ELSE [labels |-> <<>>, loaded |-> FALSE]

\* The number of distinct in-range indices among the file's well-formed
\* rows: what the file offers, counted from the file and not by the loader.
ValidIndices(file) ==
    IF file.status \notin {"ok", "error"} THEN 0
    ELSE Cardinality({file.rows[k].index : k \in {j \in 1..Len(file.rows) : RowValid(file.rows[j])}})

(***************************************************************************)
(* Events.                                                                 *)
(***************************************************************************)
\* The characters of an 'image_data' text: two characters of the base64
\* alphabet ("/" is 63, "A" is 0), the pad and an ASCII character outside
\* the alphabet.
B64Alphabet == {"/", "A", "=", "!"}

\* The value under the key 'image_data': absent (get returns None), a falsy
\* JSON value (null, 0, false, [], {}), a truthy value that is no string
\* (a number, a list, an object), a string with a non-ASCII character, or
\* an ASCII text.
ImageDataValues ==
    {[kind |-> k, text |-> <<>>] : k \in {"absent", "falsy", "nonstr", "nonascii"}}
    \cup {[kind |-> "text", text |-> t] : t \in SeqsUpTo(B64Alphabet, MaxB64Len)}

\* The event: a dict, a string holding a JSON object, a string holding
\* another JSON value, a string that is no JSON, or a JSON value that is
\* neither a dict nor a string (a list, a number, null).
Events ==
    {[form |-> f, image_data |-> d] : f \in {"dict", "str_dict"}, d \in ImageDataValues}
    \cup {[form |-> f, image_data |-> [kind |-> "absent", text |-> <<>>]] :
            f \in {"str_nondict", "str_invalid", "nondict"}}

\* Python truth of the value: `not image_b64` (line 112).
Truthy(d) == d.kind \in {"nonstr", "nonascii"} \/ (d.kind = "text" /\ d.text # <<>>)

\* Lines 109-112: the event's image_data, or the exception raised on the
\* way (json.loads on a string that is no JSON, .get on a value that is no
\* dict, the ValueError on a falsy value).
ParseEvent(e) ==
    IF e.form \in {"str_invalid", "str_nondict", "nondict"}
    THEN [ok |-> FALSE, image_b64 |-> e.image_data]
    ELSE IF ~Truthy(e.image_data)
         THEN [ok |-> FALSE, image_b64 |-> e.image_data]
         ELSE [ok |-> TRUE, image_b64 |-> e.image_data]

(***************************************************************************)
(* base64.b64decode, as the handler calls it (validate=False): characters  *)
(* outside the alphabet are discarded, and only a data length or padding   *)
(* that leaves a quad unfinished raises.  The loop is binascii.a2b_base64  *)
(* of CPython 3.11 in its non-strict mode.                                 *)
(***************************************************************************)
B64Value(c) == CASE c = "/" -> 63 [] c = "A" -> 0 [] OTHER -> 64

RECURSIVE A2bBase64(_, _, _, _, _, _)
A2bBase64(text, i, quad_pos, leftchar, pads, out) ==
    IF i > Len(text)
    THEN IF quad_pos # 0
         THEN [ok |-> FALSE, bytes |-> <<>>]      \* binascii.Error
         ELSE [ok |-> TRUE, bytes |-> out]
    ELSE LET c == text[i]
             v == B64Value(c)
         IN  IF c = "="
             THEN IF quad_pos >= 2 /\ quad_pos + pads + 1 >= 4
                  THEN [ok |-> TRUE, bytes |-> out]   \* a pad sequence ends the input
                  ELSE A2bBase64(text, i + 1, quad_pos, leftchar,
                                 IF quad_pos >= 2 THEN pads + 1 ELSE pads, out)
             ELSE IF v >= 64
                  THEN A2bBase64(text, i + 1, quad_pos, leftchar, pads, out)
                  ELSE CASE quad_pos = 0 ->
                              A2bBase64(text, i + 1, 1, v, 0, out)
                         [] quad_pos = 1 ->
                              A2bBase64(text, i + 1, 2, v % 16, 0,
                                        Append(out, (leftchar * 4 + v \div 16) % 256))
                         [] quad_pos = 2 ->
                              A2bBase64(text, i + 1, 3, v % 4, 0,
                                        Append(out, (leftchar * 16 + v \div 4) % 256))
                         [] OTHER ->
                              A2bBase64(text, i + 1, 0, 0, 0,
                                        Append(out, (leftchar * 64 + v) % 256))

\* Line 121: base64.b64decode(image_b64).  A value that is no string raises
\* TypeError, a non-ASCII string ValueError, an ASCII text what
\* a2b_base64 raises.
B64Decode(d) ==
    IF d.kind = "text"
    THEN A2bBase64(d.text, 1, 0, 0, 0, <<>>)
    ELSE [ok |-> FALSE, bytes |-> <<>>]

(***************************************************************************)
(* The image library.  A byte string is an image when it starts with the   *)
(* byte 0xFF (the first byte of a JPEG's start-of-image marker); its       *)
(* second byte, when it is 0xFF too, makes it a greyscale image, and its   *)
(* length is its width.                                                    *)
(***************************************************************************)
ImageSide == 224

\* Image.open(BytesIO(image_bytes)): the image, or an exception.
ImageOpen(bytes) ==
    IF Len(bytes) >= 1 /\ bytes[1] = 255
    THEN [ok |-> TRUE, format |-> "JPEG", width |-> Len(bytes), height |-> 1,
          mode |-> IF Len(bytes) >= 2 /\ bytes[2] = 255 THEN "L" ELSE "RGB"]
    ELSE [ok |-> FALSE, format |-> "none", width |-> 0, height |-> 0, mode |-> "none"]

NoImage == [format |-> "none", width |-> 0, height |-> 0, mode |-> "none"]

\* An Image.open that accepts any bytes.
Preprocess_AcceptAll(bytes) ==
    [ok |-> TRUE,
     image |-> [format |-> "JPEG", width |-> ImageSide, height |-> ImageSide, mode |-> "RGB"]]

\* A preprocessing without convert('RGB'): the image keeps its mode.
Preprocess_NoConvert(bytes) ==
    LET opened == ImageOpen(bytes)
    IN  IF ~opened.ok
        THEN [ok |-> FALSE, image |-> NoImage]
        ELSE [ok |-> TRUE,
              image |-> [format |-> "JPEG", width |-> ImageSide, height |-> ImageSide,
                         mode |-> opened.mode]]

\* Lines 130-134: open, convert('RGB'), resize((224, 224)), save as JPEG.
Preprocess(bytes) ==
    LET opened == ImageOpen(bytes)
    IN  IF ~opened.ok
        THEN [ok |-> FALSE, image |-> NoImage]
        ELSE LET converted == [opened EXCEPT !.mode = "RGB"]
                 resized == [converted EXCEPT !.width = ImageSide, !.height = ImageSide]
             IN  [ok |-> TRUE,
                  image |-> [format |-> "JPEG", width |-> resized.width,
                             height |-> resized.height, mode |-> resized.mode]]

(***************************************************************************)
(* The inference endpoint's answers and the mapping to a label.            *)
(***************************************************************************)
\* The entries of a 'probabilities' list: numbers, in units of 0.00001, and
\* NaN (json.loads accepts it).  One more entry stands for any value that is
\* no number.
NumElems == {[t |-> "num", v |-> n] : n \in {30004, 69996}}

NaNElem == [t |-> "nan", v |-> 0]

StrElem == [t |-> "str", v |-> 0]

ProbElems == NumElems \cup {NaNElem}

\* What invoke_endpoint and the decoding of its body give: an exception, a
\* body that is no JSON, a JSON value that is no dict, a dict without
\* 'probabilities', a 'probabilities' that is no list, or a list.
EndpointResponses ==
    {[kind |-> k, probs |-> <<>>] : k \in {"raise", "notjson", "nondict", "nokey", "notlist"}}
    \cup {[kind |-> "list", probs |-> p] : p \in SeqsUpTo(ProbElems, TableSize + 1)}
    \cup {[kind |-> "list", probs |-> <<StrElem>>]}

\* Python's a > b on two entries: every comparison with NaN is false.
Gt(a, b) == a.t = "num" /\ b.t = "num" /\ a.v > b.v

\* Python's a is b or a == b, as list.index compares: json.loads gives the
\* same float object for every NaN.
Same(a, b) == (a.t = "nan" /\ b.t = "nan") \/ (a.t = "num" /\ b.t = "num" /\ a.v = b.v)

RECURSIVE MaxFrom(_, _)
MaxFrom(rest, best) ==
    IF rest = <<>> THEN best
    ELSE MaxFrom(Tail(rest), IF Gt(Head(rest), best) THEN Head(rest) ELSE best)

\* Line 182: max(sagemaker_probabilities), of a list that is not empty.
PyMax(probs) == MaxFrom(Tail(probs), Head(probs))

\* The index of the last occurrence.
PyIndex_Last(probs, x) ==
    (CHOOSE i \in 1..Len(probs) :
        Same(probs[i], x) /\ \A j \in (i + 1)..Len(probs) : ~Same(probs[j], x)) - 1

\* Line 183: sagemaker_probabilities.index(max_prob), counted from 0.
PyIndex(probs, x) ==
    (CHOOSE i \in 1..Len(probs) :
        Same(probs[i], x) /\ \A j \in 1..(i - 1) : ~Same(probs[j], x)) - 1

\* Line 196: round(max_prob, 4), in units of 0.00001.
Round4(p) == IF p.t = "num" THEN [p EXCEPT !.v = ((p.v + 5) \div 10) * 10] ELSE p

DefaultLabel == "Error: Label index out of bounds or mapping failed"

\* Lines 179-197: the payload mapped from the list, or the exception that
\* max, index or the formatting of max_prob raises (an empty list, an
\* entry that is no number).
MapResult(probs, labels) ==
    IF probs = <<>> \/ (\E i \in 1..Len(probs) : probs[i].t = "str")
    THEN [ok |-> FALSE, payload |-> [error |-> "unhandled"]]
    ELSE LET max_prob == PyMax(probs)
             predicted_index == PyIndex(probs, max_prob)
             predicted_label == IF 0 <= predicted_index /\ predicted_index < Len(labels)
                                THEN labels[predicted_index + 1]
                                ELSE DefaultLabel
         IN  [ok |-> TRUE,
              payload |-> [prediction |-> predicted_label, confidence |-> Round4(max_prob)]]

(***************************************************************************)
(* Messages and payloads of the label-mapping handler.                     *)
(***************************************************************************)
MsgLabels == "Error: ImageNet labels could not be loaded from the local CSV file during initialization. Cannot map probabilities to labels."

MsgConfig == "Error: SAGEMAKER_ENDPOINT_NAME configuration missing."

MsgParse == "Error parsing event data: ..."

MsgDecode == "Error decoding base64 image: ..."

MsgPreprocess == "Image preprocessing failed: ..."

MsgFormat == "Error: Unexpected SageMaker response format. Expected a JSON object with a 'probabilities' key containing a list."

MsgUnhandled == "Unhandled exception during SageMaker interaction or result processing: ..."

\* {'error': error_message}
ErrorPayload(msg) == [error |-> msg]

\* Line 214: {'error': error_message, 'traceback': traceback.format_exc()}
UnhandledPayload == [error |-> MsgUnhandled, traceback |-> "Traceback (most recent call last): ..."]

\* {'statusCode': status, 'body': json.dumps(payload)}
ReturnDict(status, payload) == [statusCode |-> status, body |-> JsonDumps(payload)]

\* The values the locals hold before they are assigned.
NoPayload == [none |-> TRUE]

NoReturn == [statusCode |-> 0, body |-> JsonDumps(NoPayload)]

NoEvent == [form |-> "none", image_data |-> [kind |-> "absent", text |-> <<>>]]

\* A publish_response that never reaches the broker.
PublishCalls_Silent(payload, topic, ok) ==
    <<[op |-> "publish_response", arg |-> payload, ok |-> TRUE]>>

\* Lines 76-90: the calls publish_response makes.  Without a topic it
\* returns at once; with one it publishes json.dumps(payload_dict), and an
\* exception of the broker client is caught and logged.
PublishCalls(payload, topic, ok) ==
    <<[op |-> "publish_response", arg |-> payload, ok |-> TRUE]>>
    \o (IF topic = ""
        THEN <<>>
        ELSE <<[op |-> "iot_data_client.publish", arg |-> JsonDumps(payload), ok |-> ok]>>)

(***************************************************************************)
(* The label-mapping handler's process.                                    *)
(***************************************************************************)
\* The environment sets each name, possibly to the empty string; unset, the
\* default of os.environ.get stands.
EndpointNames == {"", "jumpstart-dft-mobilenet-v2-100-224-20250423-113843"}

Topics == {"", "device/image/response"}

\* Lines 15-25: the module's globals before load_labels_from_csv runs.
HandlerStart ==
    /\ IMAGENET_LABELS = <<>>
    /\ LABELS_LOADED_SUCCESSFULLY = FALSE
    /\ SAGEMAKER_ENDPOINT_NAME \in EndpointNames
    /\ RESPONSE_TOPIC \in Topics
    /\ validIndices = 0
    /\ pc = "init"
    /\ event = NoEvent
    /\ image_b64 = NoEvent.image_data
    /\ image_bytes = <<>>
    /\ processed_image = NoImage
    /\ sagemaker_probabilities = <<>>
    /\ output_payload = NoPayload
    /\ ret = NoReturn
    /\ calls = <<>>

HandlerInit == HandlerStart /\ label_file = UnreadFile

\* lambda_handler declares no global and assigns neither: the table and
\* its flag are left as they are.
LabelsFrame_Cleared ==
    /\ IMAGENET_LABELS' = <<>>
    /\ UNCHANGED LABELS_LOADED_SUCCESSFULLY

LabelsFrame == UNCHANGED <<IMAGENET_LABELS, LABELS_LOADED_SUCCESSFULLY>>

\* What no step of the handler changes.
HandlerFrame ==
    LabelsFrame /\ UNCHANGED <<configVars, validIndices, deployed, plainVars, deviceVars>>

Log(op, arg, ok) == calls' = Append(calls, [op |-> op, arg |-> arg, ok |-> ok])

\* An error path that does not end the invocation: the next stage runs.
FailWith_GoOn(status, payload) ==
    /\ output_payload' = payload
    /\ ret' = ReturnDict(status, payload)
    /\ pc' = CASE pc = "parse" -> "decode"
               [] pc = "decode" -> "preprocess"
               [] pc = "preprocess" -> "invoke"
               [] OTHER -> "publish"

\* A path that builds the return dict from a payload other than the one it
\* hands to publish_response.
FailWith_ReturnOnly(status, payload) ==
    /\ ret' = ReturnDict(status, payload)
    /\ pc' = "publish"
    /\ UNCHANGED output_payload

\* An error path: the payload and the return dict are built, and
\* publish_response comes next.
FailWith(status, payload) ==
    /\ output_payload' = payload
    /\ ret' = ReturnDict(status, payload)
    /\ pc' = "publish"

\* Line 73: load_labels_from_csv(LABELS_FILENAME), at module initialisation.
LoadLabels ==
    /\ deployed = "labels"
    /\ pc = "init"
    /\ \E file \in LabelFiles :
          /\ IMAGENET_LABELS' = LoadResult(file).labels
          /\ LABELS_LOADED_SUCCESSFULLY' = LoadResult(file).loaded
          /\ validIndices' = ValidIndices(file)
    /\ pc' = "idle"
    /\ UNCHANGED <<configVars, event, localVars, output_payload, ret, calls>>
    /\ UNCHANGED <<deployed, plainVars, deviceVars>>

\* Lines 93-95: the runtime calls lambda_handler(event, context).
Receive ==
    /\ pc = "idle"
    /\ \E e \in Events : event' = e
    /\ pc' = "check_labels"
    /\ UNCHANGED <<localVars, output_payload, ret, calls>>
    /\ HandlerFrame

\* Lines 97-102.
CheckLabels ==
    /\ pc = "check_labels"
    /\ IF ~LABELS_LOADED_SUCCESSFULLY
       THEN FailWith(500, ErrorPayload(MsgLabels))
       ELSE pc' = "check_config" /\ UNCHANGED <<output_payload, ret>>
    /\ UNCHANGED <<event, localVars, calls>>
    /\ HandlerFrame

\* Lines 104-105: the return without a publish.
CheckConfig ==
    /\ pc = "check_config"
    /\ IF SAGEMAKER_ENDPOINT_NAME = ""
       THEN /\ ret' = ReturnDict(500, ErrorPayload(MsgConfig))
            /\ pc' = "return"
       ELSE /\ pc' = "parse"
            /\ UNCHANGED ret
    /\ UNCHANGED <<event, localVars, output_payload, calls>>
    /\ HandlerFrame

\* Lines 108-117: 1. Extract Image Data.
Parse ==
    /\ pc = "parse"
    /\ Log("parse", event, ParseEvent(event).ok)
    /\ IF ParseEvent(event).ok
       THEN /\ image_b64' = ParseEvent(event).image_b64
            /\ pc' = "decode"
            /\ UNCHANGED <<output_payload, ret>>
       ELSE /\ FailWith(400, ErrorPayload(MsgParse))
            /\ UNCHANGED image_b64
    /\ UNCHANGED <<event, image_bytes, processed_image, sagemaker_probabilities>>
    /\ HandlerFrame

\* Lines 120-126: 2. Decode Image.
Decode ==
    /\ pc = "decode"
    /\ Log("b64decode", image_b64, B64Decode(image_b64).ok)
    /\ IF B64Decode(image_b64).ok
       THEN /\ image_bytes' = B64Decode(image_b64).bytes
            /\ pc' = "preprocess"
            /\ UNCHANGED <<output_payload, ret>>
       ELSE /\ FailWith(400, ErrorPayload(MsgDecode))
            /\ UNCHANGED image_bytes
    /\ UNCHANGED <<event, image_b64, processed_image, sagemaker_probabilities>>
    /\ HandlerFrame

\* Lines 129-140: 3. Preprocess Image.
PreprocessStage ==
    /\ pc = "preprocess"
    /\ Log("preprocess", image_bytes, Preprocess(image_bytes).ok)
    /\ IF Preprocess(image_bytes).ok
       THEN /\ processed_image' = Preprocess(image_bytes).image
            /\ pc' = "invoke"
            /\ UNCHANGED <<output_payload, ret>>
       ELSE /\ FailWith(500, ErrorPayload(MsgPreprocess))
            /\ UNCHANGED processed_image
    /\ UNCHANGED <<event, image_b64, image_bytes, sagemaker_probabilities>>
    /\ HandlerFrame

\* Lines 143-175 and 211-218: 4. Invoke SageMaker Endpoint, and the parsing
\* of its answer `r`.
Invoke ==
    /\ pc = "invoke"
    /\ \E r \in EndpointResponses :
          /\ Log("invoke_endpoint", processed_image, r.kind # "raise")
          /\ CASE r.kind \in {"raise", "notjson", "notlist"} ->
                    /\ FailWith(500, UnhandledPayload)
                    /\ UNCHANGED sagemaker_probabilities
               [] r.kind \in {"nondict", "nokey"} ->
                    /\ FailWith(502, ErrorPayload(MsgFormat))
                    /\ UNCHANGED sagemaker_probabilities
               [] OTHER ->
                    /\ sagemaker_probabilities' = r.probs
                    /\ pc' = "map"
                    /\ UNCHANGED <<output_payload, ret>>
    /\ UNCHANGED <<event, image_b64, image_bytes, processed_image>>
    /\ HandlerFrame

\* Lines 177-209 and 211-218: 5. Map Probabilities to Label, 6. the payload.
Map ==
    /\ pc = "map"
    /\ Log("map", sagemaker_probabilities, MapResult(sagemaker_probabilities, IMAGENET_LABELS).ok)
    /\ IF MapResult(sagemaker_probabilities, IMAGENET_LABELS).ok
       THEN FailWith(200, MapResult(sagemaker_probabilities, IMAGENET_LABELS).payload)
       ELSE FailWith(500, UnhandledPayload)
    /\ UNCHANGED <<event, localVars>>
    /\ HandlerFrame

\* An exception of the broker client that leaves publish_response.
PublishRaises_Propagated(ok) == ~ok

\* Lines 84-90: json.dumps and the broker client's publish run inside a
\* try block whose except clause logs the exception: whether the publish
\* returns (`ok`) or not, publish_response returns to its caller.
PublishRaises(ok) == FALSE

\* publish_response(payload), from lines 101, 116, 125, 139, 174, 201, 216;
\* `ok` is whether the broker client's publish returns.  An exception that
\* left publish_response would be caught by line 211 when the call is one
\* of lines 174 and 201, and would leave the handler otherwise.
Publish ==
    /\ pc = "publish"
    /\ \E ok \in BOOLEAN :
          /\ calls' = calls \o PublishCalls(output_payload, RESPONSE_TOPIC, ok)
          /\ IF RESPONSE_TOPIC # "" /\ PublishRaises(ok)
             THEN IF (\E i \in 1..Len(calls) : calls[i].op = "invoke_endpoint")
                     /\ output_payload # UnhandledPayload
                  THEN FailWith(500, UnhandledPayload)
                  ELSE pc' = "raised" /\ ret' = NoReturn /\ UNCHANGED output_payload
             ELSE pc' = "return" /\ UNCHANGED <<output_payload, ret>>
    /\ UNCHANGED <<event, localVars>>
    /\ HandlerFrame

\* The return statements: lines 102, 105, 117, 126, 140, 175, 209, 218.
Return ==
    /\ pc = "return"
    /\ pc' = "returned"
    /\ UNCHANGED <<event, localVars, output_payload, ret, calls>>
    /\ HandlerFrame

\* The invocation is over: its frame is gone, and the process waits for
\* the next event with its globals as they are.
Idle ==
    /\ pc = "returned"
    /\ event' = NoEvent
    /\ image_b64' = NoEvent.image_data
    /\ image_bytes' = <<>>
    /\ processed_image' = NoImage
    /\ sagemaker_probabilities' = <<>>
    /\ output_payload' = NoPayload
    /\ ret' = NoReturn
    /\ calls' = <<>>
    /\ pc' = "idle"
    /\ HandlerFrame

HandlerNext ==
    \/ LoadLabels
    \/ Receive
    \/ CheckLabels
    \/ CheckConfig
    \/ Parse
    \/ Decode
    \/ PreprocessStage
    \/ Invoke
    \/ Map
    \/ Publish
    \/ Return
    \/ Idle

(***************************************************************************)
(* The plain handler (lamba_function/src/lambda_function.py): no label     *)
(* table, no publish, the endpoint's answer returned as it is.             *)
(***************************************************************************)
\* Lines 22-75: the dict the plain handler returns for the event `e` when
\* the endpoint answers `r`.  The event is used as it is: a string has no
\* .get, and the AttributeError is caught with the rest.
PlainResult(e, r) ==
    IF e.form # "dict" \/ ~Truthy(e.image_data)
    THEN ReturnDict(400, ErrorPayload("Error parsing event data: ..."))
    ELSE IF ~B64Decode(e.image_data).ok
    THEN ReturnDict(400, ErrorPayload("Error decoding image: ..."))
    ELSE IF ~Preprocess(B64Decode(e.image_data).bytes).ok
    THEN ReturnDict(500, ErrorPayload("Image preprocessing failed: ..."))
    ELSE IF r.kind \in {"raise", "notjson"}
    THEN ReturnDict(500, ErrorPayload("Error invoking SageMaker endpoint: ..."))
    ELSE [statusCode |-> 200, body |-> JsonDumps(r), response |-> r]

PlainInit ==
    /\ plain_pc = "idle"
    /\ plain_event = NoEvent
    /\ plain_ret = NoReturn

\* Lines 7-75: one invocation of the plain handler.
PlainHandler ==
    /\ deployed = "plain"
    /\ plain_pc = "idle"
    /\ \E e \in Events, r \in EndpointResponses :
          /\ plain_event' = e
          /\ plain_ret' = PlainResult(e, r)
    /\ plain_pc' = "returned"
    /\ UNCHANGED <<deployed, handlerVars, deviceVars>>

\* The invocation is over and the function waits for the next event.
PlainIdle ==
    /\ deployed = "plain"
    /\ plain_pc = "returned"
    /\ plain_pc' = "idle"
    /\ plain_event' = NoEvent
    /\ plain_ret' = NoReturn
    /\ UNCHANGED <<deployed, handlerVars, deviceVars>>

\* The deployment package holds one of the two handler files.
LambdaInit ==
    /\ deployed \in {"labels", "plain"}
    /\ HandlerInit
    /\ PlainInit
    /\ deployed = "plain" =>
          /\ SAGEMAKER_ENDPOINT_NAME # ""
          /\ RESPONSE_TOPIC # ""

LambdaNext ==
    \/ HandlerNext
    \/ PlainHandler
    \/ PlainIdle

(***************************************************************************)
(* The device publishers: pub2.py, pub1.py and publisher.py.  Each runs a  *)
(* main thread and, once loop_start is called, the client library's        *)
(* network thread, which delivers the callbacks and the acknowledgments.   *)
(***************************************************************************)
Scripts == {"pub2", "pub1", "publisher"}

\* The return codes on_connect gets: 0, and 5 (not authorized).
ReturnCodes == {0, 5}

\* The main thread's places in pub2.py's wait for the connection.
WaitPlaces == {"wait_test", "sleep", "check_error", "failed_stop", "check_timeout"}

DeviceStart ==
    /\ mpc = "start"
    /\ connection_established = FALSE
    /\ connection_error_code = {}
    /\ cb_pc = "idle"
    /\ cb_rc = 0
    /\ connects = 0
    /\ reported_ok = FALSE
    /\ reported_fail = FALSE
    /\ now = 0
    /\ connection_start_time = 0
    /\ message_count = 0
    /\ published = <<>>
    /\ acked = {}
    /\ loop_running = FALSE
    /\ interrupted = FALSE
    /\ cleanup = <<>>
    /\ exit_status = "running"

DeviceInit == script \in Scripts /\ DeviceStart

\* exit(), sys.exit(1), an uncaught exception or the end of the script.
Exit(status) == mpc' = "exited" /\ exit_status' = status

\* mqtt_client.loop_stop() joins the network thread: it returns once the
\* callback in progress is over.
LoopStop ==
    /\ cb_pc = "idle"
    /\ loop_running' = FALSE
    /\ cleanup' = Append(cleanup, "loop_stop")

\* ------------------------------------------------------------- pub2.py

\* Lines 57-111: the client, TLS, connect() and loop_start(); any of the
\* first three may fail, and the script then calls exit().
P2_Start ==
    /\ script = "pub2" /\ mpc = "start"
    /\ \/ /\ loop_running' = TRUE
          /\ connection_start_time' = now
          /\ mpc' = "wait_test"
          /\ UNCHANGED exit_status
       \/ /\ Exit("0")
          /\ UNCHANGED <<loop_running, connection_start_time>>
    /\ UNCHANGED <<lambdaVars, script, callbackVars, now, message_count, published, acked,
                   interrupted, cleanup>>

\* Line 118: while not connection_established.
P2_WaitTest ==
    /\ script = "pub2" /\ mpc = "wait_test"
    /\ mpc' = IF connection_established THEN "publish" ELSE "sleep"
    /\ UNCHANGED <<lambdaVars, script, callbackVars, clockVars, message_count, published, acked,
                   loop_running, interrupted, cleanup, exit_status>>

\* The ticks one time.sleep(0.1) takes: the sleep may last longer than asked.
SleepTicks == {1, 2}

\* Line 119: time.sleep(0.1).  The clock stops at the first tick past the
\* timeout, where every later check gives the same answer.
P2_Sleep ==
    /\ script = "pub2" /\ mpc = "sleep"
    /\ \E d \in SleepTicks :
          now' = IF now + d > connection_start_time + TimeoutTicks + 1
                 THEN connection_start_time + TimeoutTicks + 1
                 ELSE now + d
    /\ mpc' = "check_error"
    /\ UNCHANGED <<lambdaVars, script, callbackVars, connection_start_time, message_count, published,
                   acked, loop_running, interrupted, cleanup, exit_status>>

\* Line 120: if connection_error_code is not None.  The main thread reads
\* the global once and takes its branch; the network thread runs on.
P2_CheckError ==
    /\ script = "pub2" /\ mpc = "check_error"
    /\ mpc' = IF connection_error_code # {} THEN "failed_stop" ELSE "check_timeout"
    /\ UNCHANGED <<lambdaVars, script, callbackVars, clockVars, message_count, published, acked,
                   loop_running, interrupted, cleanup, exit_status>>

\* Lines 121-123: 'Failed to connect', loop_stop() and sys.exit(1).
P2_FailedStop ==
    /\ script = "pub2" /\ mpc = "failed_stop"
    /\ LoopStop
    /\ Exit("1:failed")
    /\ UNCHANGED <<lambdaVars, script, callbackVars, clockVars, message_count, published, acked,
                   interrupted>>

\* Line 124: time.time() - connection_start_time > connection_timeout.
TimedOut_Never(t, start) == FALSE

TimedOut(t, start) == t - start > TimeoutTicks

\* Lines 124-127.
P2_CheckTimeout ==
    /\ script = "pub2" /\ mpc = "check_timeout"
    /\ IF TimedOut(now, connection_start_time)
       THEN LoopStop /\ Exit("1:timeout")
       ELSE mpc' = "wait_test" /\ UNCHANGED <<loop_running, cleanup, exit_status>>
    /\ UNCHANGED <<lambdaVars, script, callbackVars, clockVars, message_count, published, acked,
                   interrupted>>

\* Lines 24-29 and 31-41: on_connect runs on the network thread and writes
\* connection_established.
OnConnectFirst ==
    /\ script = "pub2" /\ loop_running /\ cb_pc = "idle"
    /\ connects < MaxConnects
    /\ \E rc \in ReturnCodes :
          /\ cb_rc' = rc
          /\ connection_established' = (rc = 0)
          /\ reported_ok' = (reported_ok \/ rc = 0)
          /\ reported_fail' = (reported_fail \/ rc # 0)
    /\ cb_pc' = "second"
    /\ connects' = connects + 1
    /\ UNCHANGED <<lambdaVars, script, mpc, connection_error_code, clockVars, message_count, published,
                   acked, loop_running, interrupted, cleanup, exit_status>>

\* Lines 30 and 42: on_connect writes connection_error_code and returns.
OnConnectSecond ==
    /\ script = "pub2" /\ cb_pc = "second"
    /\ connection_error_code' = IF cb_rc = 0 THEN {} ELSE {cb_rc}
    /\ cb_pc' = "idle"
    /\ UNCHANGED <<lambdaVars, script, mpc, connection_established, cb_rc, connects, reported_ok,
                   reported_fail,
                   clockVars, message_count, published, acked, loop_running, interrupted,
                   cleanup, exit_status>>

\* Lines 136-148: the next message is numbered and handed to publish with
\* qos=1.  A publish that fails makes wait_for_publish raise, and the
\* except clause of line 165 leads to the finally clause.
P2_Publish ==
    /\ script = "pub2" /\ mpc = "publish"
    /\ message_count < MaxMessages
    /\ message_count' = message_count + 1
    /\ \/ /\ published' = Append(published, message_count + 1)
          /\ mpc' = "wait_ack"
       \/ /\ mpc' = "finally"
          /\ UNCHANGED published
    /\ UNCHANGED <<lambdaVars, script, callbackVars, clockVars, acked, loop_running, interrupted,
                   cleanup, exit_status>>

\* The network thread receives the PUBACK of a message in flight.
P2_Ack ==
    /\ script = "pub2" /\ loop_running
    /\ \E k \in 1..Len(published) :
          /\ published[k] \notin acked
          /\ acked' = acked \cup {published[k]}
    /\ UNCHANGED <<lambdaVars, script, mpc, callbackVars, clockVars, message_count, published,
                   loop_running, interrupted, cleanup, exit_status>>

\* A wait that returns at once.
Delivered_NoWait(n, acks) == TRUE

\* Line 149: result.wait_for_publish() returns once the message is
\* acknowledged.
Delivered(n, acks) == n \in acks

\* Lines 149-161: the wait for the PUBACK, then time.sleep(5).
P2_WaitForPublish ==
    /\ script = "pub2" /\ mpc = "wait_ack"
    /\ Delivered(message_count, acked)
    /\ mpc' = "publish"
    /\ UNCHANGED <<lambdaVars, script, callbackVars, clockVars, message_count, published, acked,
                   loop_running, interrupted, cleanup, exit_status>>

\* Lines 163-164: a KeyboardInterrupt inside the try block.
P2_Interrupt ==
    /\ script = "pub2" /\ mpc \in {"publish", "wait_ack"}
    /\ interrupted' = TRUE
    /\ mpc' = "finally"
    /\ UNCHANGED <<lambdaVars, script, callbackVars, clockVars, message_count, published, acked,
                   loop_running, cleanup, exit_status>>

\* A KeyboardInterrupt during the wait for the connection, which no try
\* block covers: the script ends with the traceback.
P2_InterruptWait ==
    /\ script = "pub2" /\ mpc \in WaitPlaces
    /\ Exit("KeyboardInterrupt")
    /\ UNCHANGED <<lambdaVars, script, callbackVars, clockVars, message_count, published, acked,
                   loop_running, interrupted, cleanup>>

\* Lines 167-170: mqtt_client.loop_stop().
P2_LoopStop ==
    /\ script = "pub2" /\ mpc = "finally"
    /\ LoopStop
    /\ mpc' = "disconnect"
    /\ UNCHANGED <<lambdaVars, script, callbackVars, clockVars, message_count, published, acked,
                   interrupted, exit_status>>

\* Lines 171-173: mqtt_client.disconnect(), and the script ends.
P2_Disconnect ==
    /\ script = "pub2" /\ mpc = "disconnect"
    /\ cleanup' = Append(cleanup, "disconnect")
    /\ Exit("0")
    /\ UNCHANGED <<lambdaVars, script, callbackVars, clockVars, message_count, published, acked,
                   loop_running, interrupted>>

P2_Main ==
    \/ P2_Start
    \/ P2_WaitTest
    \/ P2_Sleep
    \/ P2_CheckError
    \/ P2_FailedStop
    \/ P2_CheckTimeout
    \/ P2_Publish
    \/ P2_WaitForPublish
    \/ P2_LoopStop
    \/ P2_Disconnect

P2_Next ==
    \/ P2_Main
    \/ OnConnectFirst
    \/ OnConnectSecond
    \/ P2_Ack
    \/ P2_Interrupt
    \/ P2_InterruptWait

\* ------------------------------------------------------------- pub1.py

\* Lines 32-53: the client, TLS, connect() and loop_start().  Nothing
\* catches an exception here: the script ends with the traceback.
Pub1_Start ==
    /\ script = "pub1" /\ mpc = "start"
    /\ \/ /\ loop_running' = TRUE
          /\ mpc' = "publish"
          /\ UNCHANGED exit_status
       \/ /\ Exit("1:traceback")
          /\ UNCHANGED loop_running
    /\ UNCHANGED <<lambdaVars, script, callbackVars, clockVars, message_count, published, acked,
                   interrupted, cleanup>>

\* Lines 61-66: client.publish(MQTT_TOPIC, MESSAGE) and time.sleep(1); an
\* exception is printed, and the script ends after the except clause.
Pub1_Publish ==
    /\ script = "pub1" /\ mpc = "publish"
    /\ message_count < MaxMessages
    /\ message_count' = message_count + 1
    /\ \/ /\ published' = Append(published, message_count + 1)
          /\ UNCHANGED <<mpc, exit_status>>
       \/ /\ Exit("0")
          /\ UNCHANGED published
    /\ UNCHANGED <<lambdaVars, script, callbackVars, clockVars, acked, loop_running, interrupted, cleanup>>

\* Lines 68-69: except KeyboardInterrupt.
Pub1_Interrupt ==
    /\ script = "pub1" /\ mpc = "publish"
    /\ interrupted' = TRUE
    /\ mpc' = "disconnect"
    /\ UNCHANGED <<lambdaVars, script, callbackVars, clockVars, message_count, published, acked,
                   loop_running, cleanup, exit_status>>

\* Line 70: client.disconnect().
Pub1_Disconnect ==
    /\ script = "pub1" /\ mpc = "disconnect"
    /\ cleanup' = Append(cleanup, "disconnect")
    /\ mpc' = "loop_stop"
    /\ UNCHANGED <<lambdaVars, script, callbackVars, clockVars, message_count, published, acked,
                   loop_running, interrupted, exit_status>>

\* Line 71: client.loop_stop(), and the script ends.
Pub1_LoopStop ==
    /\ script = "pub1" /\ mpc = "loop_stop"
    /\ LoopStop
    /\ Exit("0")
    /\ UNCHANGED <<lambdaVars, script, callbackVars, clockVars, message_count, published, acked,
                   interrupted>>

Pub1_Next ==
    \/ Pub1_Start
    \/ Pub1_Publish
    \/ Pub1_Interrupt
    \/ Pub1_Disconnect
    \/ Pub1_LoopStop

\* -------------------------------------------------------- publisher.py

\* Lines 20-31: the client, TLS, connect() and loop_start().
Publisher_Start ==
    /\ script = "publisher" /\ mpc = "start"
    /\ \/ /\ loop_running' = TRUE
          /\ mpc' = "publish"
          /\ UNCHANGED exit_status
       \/ /\ Exit("1:traceback")
          /\ UNCHANGED loop_running
    /\ UNCHANGED <<lambdaVars, script, callbackVars, clockVars, message_count, published, acked,
                   interrupted, cleanup>>

\* Lines 37-43: client.publish(MQTT_TOPIC, MESSAGE) and time.sleep(1); an
\* exception is printed and the cleanup of lines 46-48 follows.
Publisher_Publish ==
    /\ script = "publisher" /\ mpc = "publish"
    /\ message_count < MaxMessages
    /\ message_count' = message_count + 1
    /\ \/ /\ published' = Append(published, message_count + 1)
          /\ UNCHANGED mpc
       \/ /\ mpc' = "loop_stop"
          /\ UNCHANGED published
    /\ UNCHANGED <<lambdaVars, script, callbackVars, clockVars, acked, loop_running, interrupted,
                   cleanup, exit_status>>

\* A KeyboardInterrupt in the loop of lines 37-43: `except Exception` does
\* not catch it, and the script ends with the traceback.
Publisher_Interrupt ==
    /\ script = "publisher" /\ mpc = "publish"
    /\ interrupted' = TRUE
    /\ Exit("KeyboardInterrupt")
    /\ UNCHANGED <<lambdaVars, script, callbackVars, clockVars, message_count, published, acked,
                   loop_running, cleanup>>

\* Lines 46-47: time.sleep(2) and client.loop_stop().
Publisher_LoopStop ==
    /\ script = "publisher" /\ mpc = "loop_stop"
    /\ LoopStop
    /\ mpc' = "disconnect"
    /\ UNCHANGED <<lambdaVars, script, callbackVars, clockVars, message_count, published, acked,
                   interrupted, exit_status>>

\* Line 48: client.disconnect(), and the script ends.
Publisher_Disconnect ==
    /\ script = "publisher" /\ mpc = "disconnect"
    /\ cleanup' = Append(cleanup, "disconnect")
    /\ Exit("0")
    /\ UNCHANGED <<lambdaVars, script, callbackVars, clockVars, message_count, published, acked,
                   loop_running, interrupted>>

Publisher_Next ==
    \/ Publisher_Start
    \/ Publisher_Publish
    \/ Publisher_Interrupt
    \/ Publisher_LoopStop
    \/ Publisher_Disconnect

DeviceNext == P2_Next \/ Pub1_Next \/ Publisher_Next

(***************************************************************************)
(* The specifications.                                                     *)
(***************************************************************************)
\* No script runs.
DeviceOff == script = "none" /\ DeviceStart

\* No function is deployed.
LambdaOff ==
    /\ deployed = "none"
    /\ HandlerInit
    /\ PlainInit
    /\ SAGEMAKER_ENDPOINT_NAME # ""
    /\ RESPONSE_TOPIC # ""

\* The Lambda function: the label-mapping handler or the plain handler.
Init == LambdaInit /\ DeviceOff

Next == LambdaNext

Spec == Init /\ [][Next]_vars

\* load_labels_from_csv alone, on a file that the run keeps.
LoadFromFile ==
    /\ deployed = "loader"
    /\ pc = "init"
    /\ IMAGENET_LABELS' = LoadResult(label_file).labels
    /\ LABELS_LOADED_SUCCESSFULLY' = LoadResult(label_file).loaded
    /\ validIndices' = ValidIndices(label_file)
    /\ pc' = "idle"
    /\ UNCHANGED <<configVars, event, localVars, output_payload, ret, calls>>
    /\ UNCHANGED <<deployed, plainVars, deviceVars>>

InitLoad ==
    /\ deployed = "loader"
    /\ HandlerStart
    /\ label_file \in LabelFiles
    /\ PlainInit
    /\ DeviceOff

NextLoad == LoadFromFile

SpecLoad == InitLoad /\ [][NextLoad]_vars

\* A device publisher.
InitDevice == DeviceInit /\ LambdaOff

NextDevice == DeviceNext

SpecDevice == InitDevice /\ [][NextDevice]_vars

\* The threads of pub2.py are scheduled: its main thread goes on while it
\* can, and a callback that has begun returns.
FairSpecDevice ==
    SpecDevice /\ WF_vars(P2_Main) /\ WF_vars(OnConnectSecond)

(***************************************************************************)
(* Vocabulary of the properties.                                           *)
(***************************************************************************)
\* The label-mapping handler has returned `ret`.
Returned == deployed = "labels" /\ pc = "returned"

\* The decoded body of the returned dict.
Body == JsonLoads(ret.body)

Called(op) == \E i \in 1..Len(calls) : calls[i].op = op

CalledWith(op, arg) == \E i \in 1..Len(calls) : calls[i].op = op /\ calls[i].arg = arg

AllNumbers(p) == \A i \in 1..Len(p) : p[i].t = "num"

\* The smallest index that holds the largest number of a list of numbers.
FirstMaxIndex(p) ==
    CHOOSE i \in 1..Len(p) :
        /\ \A j \in 1..Len(p) : p[j].v <= p[i].v
        /\ \A j \in 1..(i - 1) : p[j].v < p[i].v

\* The event carries no usable 'image_data' for the label-mapping handler:
\* it is no dict (and no string holding one), or the value is absent or
\* empty.
MissingImageData(e) ==
    \/ e.form \notin {"dict", "str_dict"}
    \/ e.image_data.kind \in {"absent", "falsy"}
    \/ (e.image_data.kind = "text" /\ e.image_data.text = <<>>)

\* A text in canonical base64: alphabet characters only, a length that is
\* a multiple of four, and at most two pads, at the very end.
CanonicalBase64(t) ==
    /\ Len(t) > 0
    /\ Len(t) % 4 = 0
    /\ \A i \in 1..Len(t) : t[i] \in {"/", "A", "="}
    /\ \A i \in 1..Len(t) : t[i] = "=" => i >= Len(t) - 1
    /\ t[Len(t) - 1] = "=" => t[Len(t)] = "="

\* The value is no valid base64: no string, or a string that is not
\* canonical base64.
InvalidBase64(d) ==
    \/ d.kind \in {"nonstr", "nonascii"}
    \/ (d.kind = "text" /\ d.text # <<>> /\ ~CanonicalBase64(d.text))

\* base64.b64decode raises on the value.
DecoderRejects(d) == ~B64Decode(d).ok

\* The value is valid base64 of bytes that are no image.
CorruptImage(d) ==
    /\ d.kind = "text"
    /\ CanonicalBase64(d.text)
    /\ ~ImageOpen(B64Decode(d).bytes).ok

\* The handler got past its two configuration checks.
Configured == LABELS_LOADED_SUCCESSFULLY /\ SAGEMAKER_ENDPOINT_NAME # ""

(***************************************************************************)
(* C1.  With the labels loaded and a 'probabilities' list of numbers as    *)
(* long as the label table, the prediction returned and published is the   *)
(* label at the index of the largest probability, the smallest such index  *)
(* when several entries share it.                                          *)
(***************************************************************************)
C1_PredictionIsFirstMaximum ==
    (/\ Returned
     /\ LABELS_LOADED_SUCCESSFULLY
     /\ Called("map")
     /\ Len(sagemaker_probabilities) = Len(IMAGENET_LABELS)
     /\ AllNumbers(sagemaker_probabilities))
    => /\ ret.statusCode = 200
       /\ Body.prediction = IMAGENET_LABELS[FirstMaxIndex(sagemaker_probabilities)]
       /\ \E i \in 1..Len(calls) :
             /\ calls[i].op = "publish_response"
             /\ "prediction" \in DOMAIN calls[i].arg
             /\ calls[i].arg.prediction = IMAGENET_LABELS[FirstMaxIndex(sagemaker_probabilities)]

\* A tie between two entries whose labels differ, resolved to the first.
C1_Witness ==
    /\ Returned
    /\ ret.statusCode = 200
    /\ Len(sagemaker_probabilities) = Len(IMAGENET_LABELS)
    /\ AllNumbers(sagemaker_probabilities)
    /\ sagemaker_probabilities[1] = sagemaker_probabilities[2]
    /\ \A j \in 1..Len(sagemaker_probabilities) :
          sagemaker_probabilities[j].v <= sagemaker_probabilities[1].v
    /\ IMAGENET_LABELS[1] # IMAGENET_LABELS[2]
    /\ Body.prediction = IMAGENET_LABELS[1]

(***************************************************************************)
(* C2.  When the label file offers fewer distinct valid indices than the   *)
(* table has entries, every invocation returns 500 with the 'labels could  *)
(* not be loaded' error, never a prediction, and the endpoint is not       *)
(* invoked.                                                                *)
(***************************************************************************)
C2_IncompleteLabelsFailEveryRequest ==
    (deployed = "labels" /\ pc # "init" /\ validIndices < TableSize)
    => /\ ~Called("invoke_endpoint")
       /\ pc \notin {"parse", "decode", "preprocess", "invoke", "map"}
       /\ pc = "returned" =>
             /\ ret.statusCode = 500
             /\ Body = [error |-> MsgLabels]

\* A file with some valid rows, but not all, and a request with an image.
C2_Witness ==
    /\ Returned
    /\ validIndices >= 1
    /\ validIndices < TableSize
    /\ event.image_data.kind = "text"
    /\ ImageOpen(B64Decode(event.image_data).bytes).ok
    /\ ret.statusCode = 500

(***************************************************************************)
(* C3, as claimed.  Every malformed input (no 'image_data' or an empty     *)
(* one, 'image_data' that is no valid base64, base64 of corrupt image      *)
(* bytes) gets statusCode 400 and an error body.  The handler is taken     *)
(* past its configuration checks, so that the input decides the answer.    *)
(***************************************************************************)
C3_MalformedInputIs400 ==
    (/\ Returned
     /\ Configured
     /\ \/ MissingImageData(event)
        \/ InvalidBase64(event.image_data)
        \/ CorruptImage(event.image_data))
    => /\ ret.statusCode = 400
       /\ DOMAIN Body = {"error"}

(***************************************************************************)
(* C3, amended.  Past the configuration checks, an event with no usable    *)
(* 'image_data' gets 400 'Error parsing event data'; a value that          *)
(* b64decode rejects (no string, a non-ASCII string, a text whose last     *)
(* quad is unfinished) gets 400 'Error decoding base64 image'; a value     *)
(* that b64decode accepts (characters outside the alphabet are discarded,  *)
(* not rejected) but whose bytes are no image gets 500 'Image              *)
(* preprocessing failed'.  Each body is {error} alone.  The plain handler  *)
(* answers with the same codes, and takes no string for an event.          *)
(***************************************************************************)
C3_MalformedInputIs400Or500 ==
    /\ (Returned /\ Configured) =>
          /\ MissingImageData(event) => ret = ReturnDict(400, [error |-> MsgParse])
          /\ (~MissingImageData(event) /\ DecoderRejects(event.image_data))
                => ret = ReturnDict(400, [error |-> MsgDecode])
          /\ (~MissingImageData(event) /\ ~DecoderRejects(event.image_data)
              /\ ~ImageOpen(B64Decode(event.image_data).bytes).ok)
                => ret = ReturnDict(500, [error |-> MsgPreprocess])
          /\ CorruptImage(event.image_data) => ret.statusCode = 500
    /\ (deployed = "plain" /\ plain_pc = "returned") =>
          /\ (plain_event.form # "dict" \/ MissingImageData(plain_event))
                => plain_ret.statusCode = 400 /\ DOMAIN JsonLoads(plain_ret.body) = {"error"}
          /\ (plain_event.form = "dict" /\ ~MissingImageData(plain_event)
              /\ DecoderRejects(plain_event.image_data))
                => plain_ret.statusCode = 400 /\ DOMAIN JsonLoads(plain_ret.body) = {"error"}
          /\ (plain_event.form = "dict" /\ CorruptImage(plain_event.image_data))
                => plain_ret.statusCode = 500 /\ DOMAIN JsonLoads(plain_ret.body) = {"error"}

\* Valid base64 ("AA==") of a byte that is no image, answered with 500.
C3_Witness ==
    /\ Returned
    /\ Configured
    /\ event.image_data = [kind |-> "text", text |-> <<"A", "A", "=", "=">>]
    /\ CorruptImage(event.image_data)
    /\ ret.statusCode = 500
    /\ Body = [error |-> MsgPreprocess]

(***************************************************************************)
(* C4.  When the list of probabilities and the label table differ in       *)
(* length, the handler fails with an error: its answer is not a 200, and   *)
(* its body is an error.                                                   *)
(***************************************************************************)
C4_LengthMismatchFails ==
    (/\ Returned
     /\ Called("map")
     /\ Len(sagemaker_probabilities) # Len(IMAGENET_LABELS))
    => /\ ret.statusCode # 200
       /\ "error" \in DOMAIN Body

(***************************************************************************)
(* C5, as claimed.  On every path that returns a non-200 status, the       *)
(* publish of the error payload has reached iot_data_client.publish        *)
(* before the handler returns.                                             *)
(***************************************************************************)
C5_ErrorAlwaysPublished ==
    (deployed = "labels" /\ pc \in {"return", "returned"} /\ ret.statusCode # 200)
    => CalledWith("iot_data_client.publish", ret.body)

(***************************************************************************)
(* C5, amended.  On every path that returns a non-200 status, except the   *)
(* return for a missing SAGEMAKER_ENDPOINT_NAME (line 105),                *)
(* publish_response has been called with the error payload before the      *)
(* handler returns; the call has reached iot_data_client.publish, with     *)
(* the payload's JSON, when RESPONSE_TOPIC is not empty.                   *)
(***************************************************************************)
C5_ErrorPublishedOnPipelinePaths ==
    (/\ deployed = "labels"
     /\ pc \in {"return", "returned"}
     /\ ret.statusCode # 200
     /\ Body # [error |-> MsgConfig])
    => /\ CalledWith("publish_response", Body)
       /\ RESPONSE_TOPIC # "" => CalledWith("iot_data_client.publish", ret.body)

\* The 502 of an unexpected answer of the endpoint, published and returned.
C5_Witness ==
    /\ Returned
    /\ ret.statusCode = 502
    /\ CalledWith("iot_data_client.publish", ret.body)

(***************************************************************************)
(* C6.  Every value the label-mapping handler returns has exactly the keys *)
(* statusCode and body; the decoded body is exactly {prediction,           *)
(* confidence} or exactly {error}; it is the prediction form if and only   *)
(* if statusCode is 200.                                                   *)
(***************************************************************************)
C6_ResponseShape ==
    Returned
    => /\ DOMAIN ret = {"statusCode", "body"}
       /\ DOMAIN Body \in {{"prediction", "confidence"}, {"error"}}
       /\ (DOMAIN Body = {"prediction", "confidence"}) <=> (ret.statusCode = 200)

(***************************************************************************)
(* C10.  Once load_labels_from_csv has returned, no step changes           *)
(* IMAGENET_LABELS or LABELS_LOADED_SUCCESSFULLY, and the table is not     *)
(* loaded again.                                                           *)
(***************************************************************************)
C10_LabelsImmutableAfterLoad ==
    [][(deployed = "labels" /\ pc # "init")
        => /\ pc' # "init"
           /\ IMAGENET_LABELS' = IMAGENET_LABELS
           /\ LABELS_LOADED_SUCCESSFULLY' = LABELS_LOADED_SUCCESSFULLY]_vars

\* A full table that has served a request down to the mapping.
C10_Witness ==
    /\ Returned
    /\ LABELS_LOADED_SUCCESSFULLY
    /\ Len(IMAGENET_LABELS) = TableSize
    /\ Called("map")
    /\ Called("publish_response")

\* pub2.py waits for the connection (lines 118-127).
InWait == script = "pub2" /\ mpc \in WaitPlaces

\* pub2.py left its wait with sys.exit(1).
ExitedFromWait == script = "pub2" /\ exit_status \in {"1:failed", "1:timeout"}

(***************************************************************************)
(* C7, as claimed.  pub2.py goes on waiting until its timeout: the wait    *)
(* ends with sys.exit(1) only once the timeout has expired, so that a      *)
(* connection attempt that fails before the timeout does not end the       *)
(* script.                                                                 *)
(***************************************************************************)
C7_OnlyTimeoutEndsTheWait ==
    ExitedFromWait => TimedOut(now, connection_start_time)

(***************************************************************************)
(* C7, amended.  The wait of pub2.py for the connection always ends, at    *)
(* the latest when the timeout expires.  It ends in one of these ways: the *)
(* main thread sees connection_established and the publish loop starts;    *)
(* it sees a connection_error_code that on_connect has set for a non-zero  *)
(* return code, stops the network loop and exits with status 1, before the *)
(* timeout or after it; the timeout expires, and it stops the network loop *)
(* and exits with status 1; a keyboard interrupt ends the script.  No      *)
(* message is published, and the publish loop is not entered, before       *)
(* on_connect has reported return code 0.                                  *)
(***************************************************************************)
C7_WaitEndsByConnectFailureOrTimeout ==
    /\ [](script = "pub2" =>
            /\ published # <<>> => reported_ok
            /\ mpc \in {"publish", "wait_ack"} => reported_ok
            /\ exit_status = "1:timeout" =>
                  /\ TimedOut(now, connection_start_time)
                  /\ ~loop_running
                  /\ cleanup = <<"loop_stop">>
                  /\ published = <<>>
            /\ exit_status = "1:failed" =>
                  /\ reported_fail
                  /\ ~loop_running
                  /\ cleanup = <<"loop_stop">>
                  /\ published = <<>>)
    /\ InWait ~> ~InWait

\* A failed attempt ends the script before the timeout has expired.
C7_Witness ==
    /\ script = "pub2"
    /\ mpc = "exited"
    /\ exit_status = "1:failed"
    /\ ~TimedOut(now, connection_start_time)
    /\ cleanup = <<"loop_stop">>

(***************************************************************************)
(* C8.  When a keyboard interrupt ends a publisher script (pub1.py,        *)
(* pub2.py, publisher.py) in its publish loop, the script has stopped the  *)
(* network loop and then disconnected from the broker, in this order,      *)
(* before it exits.                                                        *)
(***************************************************************************)
C8_InterruptStopsLoopThenDisconnects ==
    (script \in Scripts /\ mpc = "exited" /\ interrupted)
    => cleanup = <<"loop_stop", "disconnect">>

(***************************************************************************)
(* C9.  pub2.py publishes message n+1 only after message n has been        *)
(* acknowledged, and so the messages leave in the order 1, 2, 3, ...,      *)
(* none skipped and none sent twice.                                       *)
(***************************************************************************)
C9_PublishInOrderAfterAck ==
    script = "pub2" =>
        /\ \A k \in 1..Len(published) : published[k] = k
        /\ \A k \in 1..(Len(published) - 1) : published[k] \in acked
        /\ Len(published) <= message_count

\* The last message of the run is out, the one before it acknowledged.
C9_Witness ==
    /\ script = "pub2"
    /\ Len(published) = MaxMessages
    /\ published[MaxMessages] \notin acked
    /\ (MaxMessages - 1) \in acked

\* What lines 130-134 are to produce.
Rgb224Jpeg == [format |-> "JPEG", width |-> ImageSide, height |-> ImageSide, mode |-> "RGB"]

\* The event's 'image_data' is valid base64 of a JPEG image.
ValidJpegEvent(e) ==
    /\ e.form \in {"dict", "str_dict"}
    /\ e.image_data.kind = "text"
    /\ CanonicalBase64(e.image_data.text)
    /\ ImageOpen(B64Decode(e.image_data).bytes).ok
    /\ ImageOpen(B64Decode(e.image_data).bytes).format = "JPEG"

(***************************************************************************)
(* C11.  For every valid base64 of a JPEG given as 'image_data', of any    *)
(* size and mode, the handler (past its configuration checks) decodes,     *)
(* resizes and re-encodes it to a 224x224 RGB JPEG, and this image is the  *)
(* body of the one call of the inference endpoint.                         *)
(***************************************************************************)
C11_EndpointGetsRgb224Jpeg ==
    (Returned /\ Configured /\ ValidJpegEvent(event))
    => /\ processed_image = Rgb224Jpeg
       /\ CalledWith("preprocess", B64Decode(event.image_data).bytes)
       /\ CalledWith("invoke_endpoint", Rgb224Jpeg)
       /\ \A i \in 1..Len(calls) :
             calls[i].op = "invoke_endpoint" => calls[i].arg = Rgb224Jpeg

\* A greyscale JPEG that is not 224 wide went in, an RGB one went out.
C11_Witness ==
    /\ Returned
    /\ Configured
    /\ ValidJpegEvent(event)
    /\ ImageOpen(image_bytes).mode = "L"
    /\ ImageOpen(image_bytes).width # ImageSide
    /\ CalledWith("invoke_endpoint", Rgb224Jpeg)

\* The stages of the pipeline, in the order of the source.
StageOrder == <<"parse", "b64decode", "preprocess", "invoke_endpoint", "map">>

IsStage(c) == c.op \in {"parse", "b64decode", "preprocess", "invoke_endpoint", "map"}

\* The stages the invocation has run so far, in the order they ran.
StagesRun == SelectSeq(calls, IsStage)

(***************************************************************************)
(* C12.  Within one invocation the stages run in the order parse, decode,  *)
(* preprocess, invoke, map, each at most once and only after all the       *)
(* stages before it have succeeded; the endpoint is invoked at most once,  *)
(* and only with the labels loaded; a failed stage is the last one, and    *)
(* the handler goes to its return.                                         *)
(***************************************************************************)
C12_StagesInOrderFirstFailureEnds ==
    deployed = "labels" =>
        LET run == StagesRun
            n == Len(run)
        IN  /\ n <= Len(StageOrder)
            /\ \A i \in 1..n : run[i].op = StageOrder[i]
            /\ \A i \in 1..(n - 1) : run[i].ok
            /\ Cardinality({i \in 1..Len(calls) : calls[i].op = "invoke_endpoint"}) <= 1
            /\ n >= 4 =>
                  /\ LABELS_LOADED_SUCCESSFULLY
                  /\ run[1].arg = event
                  /\ run[2].arg = image_b64
                  /\ run[3].arg = image_bytes
            /\ (n > 0 /\ ~run[n].ok) => pc \in {"publish", "return", "returned"}

\* Preprocessing failed, and neither the endpoint nor the mapping ran.
C12_Witness ==
    /\ Returned
    /\ Len(StagesRun) = 3
    /\ StagesRun[1].ok
    /\ StagesRun[2].ok
    /\ StagesRun[3].op = "preprocess"
    /\ ~StagesRun[3].ok
    /\ ~Called("invoke_endpoint")

\* The broker client's publish was called and raised.
PublishFailed ==
    \E i \in 1..Len(calls) : calls[i].op = "iot_data_client.publish" /\ ~calls[i].ok

(***************************************************************************)
(* C13.  Publishing is best-effort: the handler never raises to its        *)
(* caller, and the step that publishes, whether the broker client's        *)
(* publish returns or raises, leaves the response and its payload as the   *)
(* stages decided them and goes to the return; so a 200 stays a 200.       *)
(***************************************************************************)
C13_PublishOutcomeDoesNotChangeResponse ==
    /\ [](deployed = "labels" => pc # "raised")
    /\ [][(deployed = "labels" /\ pc = "publish")
            => /\ pc' = "return"
               /\ ret' = ret
               /\ output_payload' = output_payload]_vars
    /\ []((Returned /\ PublishFailed) =>
            /\ ret = ReturnDict(ret.statusCode, output_payload)
            /\ "prediction" \in DOMAIN output_payload <=> ret.statusCode = 200)

\* A prediction is returned with 200 although its publish raised.
C13_Witness ==
    /\ Returned
    /\ PublishFailed
    /\ ret.statusCode = 200
    /\ "prediction" \in DOMAIN Body

\* The places of `calls` where `op` was called.
CallsOf(op) == {i \in 1..Len(calls) : calls[i].op = op}

(***************************************************************************)
(* C14.  Within one invocation publish_response is called at most once,    *)
(* and so is the broker client's publish; once the response is built, the  *)
(* payload handed to publish_response is the decoded body of the response  *)
(* the handler returns, and the JSON published is the body itself.  So a   *)
(* success payload and an error payload are never both published.          *)
(***************************************************************************)
C14_OnePublishOfTheReturnedBody ==
    deployed = "labels" =>
        /\ Cardinality(CallsOf("publish_response")) <= 1
        /\ Cardinality(CallsOf("iot_data_client.publish")) <= 1
        /\ pc \in {"return", "returned"} =>
              /\ \A i \in CallsOf("publish_response") : calls[i].arg = Body
              /\ \A i \in CallsOf("iot_data_client.publish") : calls[i].arg = ret.body

\* The catch-all's payload, published once and returned.
C14_Witness ==
    /\ Returned
    /\ Body = UnhandledPayload
    /\ Cardinality(CallsOf("publish_response")) = 1
    /\ Cardinality(CallsOf("iot_data_client.publish")) = 1
    /\ CalledWith("publish_response", Body)
    /\ Called("map")

\* load_labels_from_csv has returned, in the run that keeps the file.
Loaded == deployed = "loader" /\ pc = "idle"

\* A well-formed row: exactly two fields, the first an integer.
WellFormed(row) == row.nfields = 2 /\ row.isInt

\* The places of the file's well-formed rows with index i.
RowsFor(file, i) ==
    {k \in 1..Len(file.rows) : WellFormed(file.rows[k]) /\ file.rows[k].index = i}

FirstRowFor(file, i) == CHOOSE k \in RowsFor(file, i) : \A j \in RowsFor(file, i) : k <= j

\* Every index of the table occurs in a well-formed row of the file.
CoversTable(file) == \A i \in 0..(TableSize - 1) : RowsFor(file, i) # {}

\* The table the claim describes: entry i is the label of the first
\* well-formed row with index i.
FirstLabels(file) == [n \in 1..TableSize |-> file.rows[FirstRowFor(file, n - 1)].label]

(***************************************************************************)
(* C15, as claimed.  The flag is true if and only if every index of the    *)
(* table occurs in a well-formed row of the file; the table then holds,    *)
(* for each index, the label of the first such row; otherwise the table    *)
(* is empty.                                                               *)
(***************************************************************************)
C15_LoadedIffFileCoversTable ==
    Loaded =>
        /\ LABELS_LOADED_SUCCESSFULLY <=> CoversTable(label_file)
        /\ LABELS_LOADED_SUCCESSFULLY => IMAGENET_LABELS = FirstLabels(label_file)
        /\ ~LABELS_LOADED_SUCCESSFULLY => IMAGENET_LABELS = <<>>

(***************************************************************************)
(* C15, amended.  The flag is true if and only if the file is read to its  *)
(* end without an exception and every index of the table occurs in a       *)
(* well-formed row of it; the table then has exactly one entry per index,  *)
(* the label of the first well-formed row with that index, whatever        *)
(* duplicates, malformed rows and out-of-range indices the file also       *)
(* holds; otherwise the table is empty and the flag false.                 *)
(***************************************************************************)
C15_LoadedIffFileReadAndCoversTable ==
    Loaded =>
        /\ LABELS_LOADED_SUCCESSFULLY <=>
              (label_file.status = "ok" /\ CoversTable(label_file))
        /\ LABELS_LOADED_SUCCESSFULLY =>
              /\ Len(IMAGENET_LABELS) = TableSize
              /\ IMAGENET_LABELS = FirstLabels(label_file)
        /\ ~LABELS_LOADED_SUCCESSFULLY => IMAGENET_LABELS = <<>>

\* A file with a second, different label for index 0 loads with the first.
C15_Witness ==
    /\ Loaded
    /\ LABELS_LOADED_SUCCESSFULLY
    /\ Cardinality(RowsFor(label_file, 0)) = 2
    /\ \E k \in RowsFor(label_file, 0) : label_file.rows[k].label # IMAGENET_LABELS[1]
    /\ IMAGENET_LABELS[1] = label_file.rows[FirstRowFor(label_file, 0)].label

\* pub2.py takes, or has taken, its 'Failed to connect' exit.
FailureExit == script = "pub2" /\ (mpc = "failed_stop" \/ exit_status = "1:failed")

(***************************************************************************)
(* C16.  Under every interleaving of the on_connect callbacks with the     *)
(* wait loop of pub2.py, the main thread takes its 'Failed to connect'     *)
(* exit only after an on_connect with a non-zero return code, and never    *)
(* while connection_established is true.                                   *)
(***************************************************************************)
C16_NoFailureExitWhileConnected ==
    FailureExit => (reported_fail /\ ~connection_established)

====
